---- MODULE Spec2Model ----
(***************************************************************************)
(* Model of ext_scripts/ext_rbd.py, the RBD provider script of the ganeti  *)
(* extstorage disk template.  One run of the script is one action: main()  *)
(* reads the process environment, picks the handler named by sys.argv[0]   *)
(* and runs it; every `rbd` command the handler issues acts on the         *)
(* backend's table of mapped devices.                                      *)
(*                                                                         *)
(* Python values are tagged records (None, str, bool, dict) so that        *)
(* truthiness, `is None`, str() and a missing dictionary key behave as in  *)
(* the interpreter.  A Python call is an operator from a context (backend  *)
(* table, commands issued so far, the backend's behaviour in this run) to  *)
(* a result [ctx, exc, val]; exc # "" is a raised exception.               *)
(*                                                                         *)
(* The script keeps nothing between runs, and a run is one synchronous     *)
(* process with one rbd command in flight: runs are taken one after the    *)
(* other, each on the table the one before left.  A behaviour fixes the    *)
(* environment (the volume and its parameters) and starts on any table, so *)
(* what runs for other volumes may have mapped is there from the start.    *)
(***************************************************************************)
EXTENDS Integers, Sequences, FiniteSets, TLC

VARIABLES environ, mappings, last, prev

vars == <<environ, mappings, last, prev>>

(* ------------------------------ bounds -------------------------------- *)

\* Number of rbd device slots /dev/rbd0 .. /dev/rbd<MaxDev-1> of the host.
MaxDev == 2

(* --------------------------- Python values ---------------------------- *)

PyNone == [t |-> "None"]

PyStr(s) == [t |-> "str", v |-> s]

PyBool(b) == [t |-> "bool", v |-> b]

PyDict(d) == [t |-> "dict", v |-> d]

\* Python truth value of x (`if x:`).
Truthy(x) ==
  CASE x.t = "None" -> FALSE
    [] x.t = "str"  -> x.v # ""
    [] x.t = "bool" -> x.v
    [] x.t = "dict" -> DOMAIN x.v # {}

\* str(x)
ToStr(x) ==
  CASE x.t = "None" -> "None"
    [] x.t = "str"  -> x.v
    [] x.t = "bool" -> IF x.v THEN "True" ELSE "False"
    [] x.t = "dict" -> "{}"

\* d.get(k) on a dictionary whose values are Python values.
Get(d, k) == IF k \in DOMAIN d THEN d[k] ELSE PyNone

\* os.getenv(k): the environment holds plain strings.
Getenv(env, k) == IF k \in DOMAIN env THEN PyStr(env[k]) ELSE PyNone

(* ----------------------------- constants ------------------------------ *)

RBD_CMD == "rbd"

\* The EXTP_ variables the model's environments can hold, each with what
\* k[len(PREFIX_EXTP):].lower() makes of it; a variable outside this table
\* does not start with PREFIX_EXTP.
PREFIX_EXTP ==
  [ EXTP_ORIGIN         |-> "origin",
    EXTP_REUSE_DATA     |-> "reuse_data",
    EXTP_RBD_POOL       |-> "rbd_pool",
    EXTP_CEPHX_ID       |-> "cephx_id",
    EXTP_CEPHX_KEYRING  |-> "cephx_keyring",
    EXTP_CEPHX_KEYFILE  |-> "cephx_keyfile",
    EXTP_IMAGE_FORMAT   |-> "image_format",
    EXTP_IMAGE_FEATURES |-> "image_features",
    EXTP_STRIPE_UNIT    |-> "stripe_unit",
    EXTP_STRIPE_COUNT   |-> "stripe_count",
    EXTP_USERSPACE_ONLY |-> "userspace_only",
    EXTP_NAME           |-> "name",
    EXTP_SIZE           |-> "size",
    EXTP_CEPHX          |-> "cephx" ]

\* s.lower() on the values the boolean variables take in the model.
Lower(s) ==
  CASE s = "YES"  -> "yes"
    [] s = "On"   -> "on"
    [] s = "True" -> "true"
    [] OTHER      -> s

\* re.match(TRUE_PATTERN, s, flags=re.IGNORECASE) is not None
TRUE_PATTERN(s) == Lower(s) \in {"yes", "true", "on", "1", "set"}

(* ------------------------------ backend ------------------------------- *)

\* The pools and image names the cluster knows; an image given without a
\* pool lives in DefaultPool.
DefaultPool == "rbd"

BackendPools == {DefaultPool, "p"}

Names == {"vol1", "vol2"}

DevIds == 0 .. (MaxDev - 1)

DevicePath(i) == "/dev/rbd" \o ToString(i)

\* The image spec <pool>/<name> or <name> as the rbd tool reads it.
ImageSpecs(s) ==
  { im \in [pool : BackendPools, name : Names] :
      \/ s = im.pool \o "/" \o im.name
      \/ s = im.name /\ im.pool = DefaultPool }

\* The tables the backend can be in: each device slot free or mapped.
Free == [pool |-> "", name |-> ""]

Tables == [DevIds -> {Free} \cup [pool : BackendPools, name : Names]]

Mapped(maps) == { i \in DOMAIN maps : maps[i] # Free }

\* `rbd showmapped --format json`, parsed: id -> {name, pool, device}.
Showmapped(maps) ==
  [ i \in Mapped(maps) |->
      [name |-> maps[i].name, pool |-> maps[i].pool, device |-> DevicePath(i)] ]

\* The command line without the leading --id/--keyring/--keyfile options.
RECURSIVE StripAuth(_)
StripAuth(argv) ==
  IF Len(argv) >= 2 /\ argv[1] \in {"--id", "--keyring", "--keyfile"}
  THEN StripAuth(SubSeq(argv, 3, Len(argv)))
  ELSE argv

\* A run of the rbd tool that exits non-zero and changes nothing.
BackendFails(maps) == [rc |-> 1, out |-> "", maps |-> maps]

\* `rbd map <spec>`: the image gets the free slot id, whose path is printed.
BackendMap(maps, spec, id) ==
  IF ImageSpecs(spec) = {} \/ id \notin DOMAIN maps THEN BackendFails(maps)
  ELSE IF maps[id] # Free THEN BackendFails(maps)
  ELSE [rc |-> 0, out |-> DevicePath(id),
        maps |-> [maps EXCEPT ![id] = CHOOSE im \in ImageSpecs(spec) : TRUE]]

\* `rbd unmap <device>`: the slot of that path is freed.
BackendUnmap(maps, device) ==
  IF \A i \in Mapped(maps) : DevicePath(i) # device THEN BackendFails(maps)
  ELSE [rc |-> 0, out |-> "",
        maps |-> [i \in DOMAIN maps |->
                    IF DevicePath(i) = device THEN Free ELSE maps[i]]]

\* The rbd tool on the command line a, auth options already read.
BackendRun(maps, a, be) ==
  IF Len(a) = 0 THEN BackendFails(maps)
  ELSE IF a[1] = be.fail THEN BackendFails(maps)
  ELSE CASE a[1] = "showmapped" ->
              [rc |-> 0, out |-> Showmapped(maps), maps |-> maps]
         [] a[1] = "map" /\ Len(a) >= 2 -> BackendMap(maps, a[2], be.newId)
         [] a[1] = "unmap" /\ Len(a) >= 2 -> BackendUnmap(maps, a[2])
         [] OTHER -> [rc |-> 0, out |-> "", maps |-> maps]

\* One run of the rbd tool on table maps.  be is the backend's behaviour in
\* this invocation: be.fail names the command that exits non-zero (or is
\* ""), be.newId is the device slot the kernel hands to a new mapping.
\* Result: exit code, trimmed stdout, the table afterwards.
Backend(maps, argv, be) == BackendRun(maps, StripAuth(argv), be)

(* --------------------------- class RBD -------------------------------- *)

\* A Python call's result.
Ret(ctx, val) == [ctx |-> ctx, exc |-> "", val |-> val]

Raise(ctx, exc) == [ctx |-> ctx, exc |-> exc, val |-> PyNone]

\* RBD.format_name with name and pool as Python values.
format_name(name, pool) ==
  IF pool.t # "None" THEN ToStr(pool) \o "/" \o ToStr(name) ELSE ToStr(name)

\* The context after doexec([RBD.RBD_CMD] + args) gave r.
Issued(ctx, args, r) ==
  [ctx EXCEPT !.maps = r.maps, !.cmds = Append(@, <<RBD_CMD>> \o args),
              !.rcs = Append(@, r.rc)]

\* The end of RBD._exc: RBDException on a non-zero exit code.
ExcResult(ctx, args, r) ==
  IF r.rc # 0 THEN Raise(Issued(ctx, args, r), "RBDException")
  ELSE Ret(Issued(ctx, args, r), r.out)

\* RBD._exc
RBD__exc(ctx, args) == ExcResult(ctx, args, Backend(ctx.maps, args, ctx.be))

\* The --id/--keyring/--keyfile options RBD.exc builds from dict cephx.
CephxArgs(cephx) ==
  (IF "id" \in DOMAIN cephx THEN <<"--id", ToStr(cephx["id"])>> ELSE <<>>)
  \o (IF "keyring" \in DOMAIN cephx
      THEN <<"--keyring", ToStr(cephx["keyring"])>> ELSE <<>>)
  \o (IF "keyfile" \in DOMAIN cephx
      THEN <<"--keyfile", ToStr(cephx["keyfile"])>> ELSE <<>>)

\* The argument list RBD.exc hands to RBD._exc.
ExcArgs(cephx, args) ==
  IF Truthy(cephx) THEN CephxArgs(cephx.v) \o args ELSE args

\* RBD.exc: a str in place of the dict has no .get (AttributeError).
RBD_exc(ctx, cephx, args) ==
  IF Truthy(cephx) /\ cephx.t # "dict" THEN Raise(ctx, "AttributeError")
  ELSE RBD__exc(ctx, ExcArgs(cephx, args))

\* The end of RBD.list: the listing r, cut down to pool when pool is truthy.
ListFilter(pool, r) ==
  IF r.exc # "" THEN r
  ELSE IF Truthy(pool)
  THEN Ret(r.ctx, [ k \in { i \in DOMAIN r.val : r.val[i].pool = ToStr(pool) }
                      |-> r.val[k] ])
  ELSE r

\* RBD.list
RBD_list(ctx, pool, cephx) ==
  ListFilter(pool, RBD_exc(ctx, cephx, <<"showmapped", "--format", "json">>))

\* The keys of listing whose mapping is named image.
Named(listing, image) ==
  { k \in DOMAIN listing : image.t = "str" /\ listing[k].name = image.v }

\* FirstNamed with the loop comparing the wrong field: nothing ever matches.
FirstNamedNever(image, r) ==
  IF r.exc # "" THEN r ELSE Ret(r.ctx, PyNone)

\* The loop of RBD.get_device over listing r: the device of the first
\* mapping named image, else None.  The order a dict is walked in is fixed
\* by its contents; CHOOSE is that fixed order.
FirstNamed(image, r) ==
  IF r.exc # "" THEN r
  ELSE IF Named(r.val, image) = {} THEN Ret(r.ctx, PyNone)
  ELSE Ret(r.ctx, PyStr(r.val[CHOOSE k \in Named(r.val, image) : TRUE].device))

\* RBD.get_device
RBD_get_device(ctx, image, pool, cephx) ==
  FirstNamed(image, RBD_list(ctx, pool, cephx))

\* CreateOpts with the two stripe options appended the other way round.
CreateOptsSwapped(image_format, image_features, stripe_unit, stripe_count) ==
  (IF image_format.t # "None"
   THEN <<"--image-format", ToStr(image_format)>> ELSE <<>>)
  \o (IF image_features.t # "None"
      THEN <<"--image-features", ToStr(image_features)>> ELSE <<>>)
  \o (IF stripe_count.t # "None"
      THEN <<"--stripe-count", ToStr(stripe_count)>> ELSE <<>>)
  \o (IF stripe_unit.t # "None"
      THEN <<"--stripe-unit", ToStr(stripe_unit)>> ELSE <<>>)

\* The optional arguments RBD.create appends, in its order.
CreateOpts(image_format, image_features, stripe_unit, stripe_count) ==
  (IF image_format.t # "None"
   THEN <<"--image-format", ToStr(image_format)>> ELSE <<>>)
  \o (IF image_features.t # "None"
      THEN <<"--image-features", ToStr(image_features)>> ELSE <<>>)
  \o (IF stripe_unit.t # "None"
      THEN <<"--stripe-unit", ToStr(stripe_unit)>> ELSE <<>>)
  \o (IF stripe_count.t # "None"
      THEN <<"--stripe-count", ToStr(stripe_count)>> ELSE <<>>)

\* RBD.create; o holds the four optional keyword arguments.
RBD_create(ctx, image, size, pool, o, cephx) ==
  RBD_exc(ctx, cephx,
          <<"create", format_name(image, pool), "--size", ToStr(size)>>
          \o CreateOpts(o.image_format, o.image_features,
                        o.stripe_unit, o.stripe_count))

RBD_map(ctx, image, pool, cephx) ==
  RBD_exc(ctx, cephx, <<"map", format_name(image, pool)>>)

RBD_unmap(ctx, device, cephx) ==
  RBD_exc(ctx, cephx, <<"unmap", ToStr(device)>>)

\* RBD.resize hands size over as it is: None in the argument list makes
\* Popen raise TypeError before any command runs.
RBD_resize(ctx, image, size, pool, cephx) ==
  IF Truthy(cephx) /\ cephx.t # "dict" THEN Raise(ctx, "AttributeError")
  ELSE IF size.t # "str" THEN Raise(ctx, "TypeError")
  ELSE RBD_exc(ctx, cephx,
               <<"resize", format_name(image, pool), "--size", size.v>>)

RBD_remove(ctx, image, pool, cephx) ==
  RBD_exc(ctx, cephx, <<"rm", format_name(image, pool)>>)

(* ----------------------------- read_env ------------------------------- *)

\* dict.update and dict.pop on dictionaries of Python values.
Update(d, e) ==
  [ k \in DOMAIN d \cup DOMAIN e |-> IF k \in DOMAIN e THEN e[k] ELSE d[k] ]

Pop(d, ks) == [ k \in DOMAIN d \ ks |-> d[k] ]

\* The loop over os.environ: every EXTP_ variable, prefix cut, lower-cased.
ExtpParams(env) ==
  [ k \in { PREFIX_EXTP[K] : K \in DOMAIN env \cap DOMAIN PREFIX_EXTP } |->
      PyStr(env[CHOOSE K \in DOMAIN env \cap DOMAIN PREFIX_EXTP :
                  PREFIX_EXTP[K] = k]) ]

\* A boolean parameter: parsed from variable var when extp[k] is truthy.
BoolParam(env, extp, k, var) ==
  IF Truthy(Get(extp, k)) THEN TRUE_PATTERN(env[var]) ELSE FALSE

\* extp_params.pop(k) under `if extp_params.get(k):`.
PopTruthy(extp, ks) == Pop(extp, { k \in ks : Truthy(Get(extp, k)) })

\* The cephx dictionary: the truthy cephx_ parameters, sub-prefix cut.
CephxOf(extp) ==
  [ k \in { c \in {"id", "keyring", "keyfile"} :
              Truthy(Get(extp, "cephx_" \o c)) } |-> extp["cephx_" \o k] ]

\* The dictionary read_env returns, from the EXTP_ parameters extp.
EnvDict(env, extp) ==
  Update([ name           |-> Getenv(env, "VOL_CNAME"),
           size           |-> Getenv(env, "VOL_SIZE"),
           snapshot_name  |-> Getenv(env, "VOL_SNAPSHOT_NAME"),
           cephx          |-> PyDict(CephxOf(extp)),
           reuse_data     |->
             PyBool(BoolParam(env, extp, "reuse_data", "EXTP_REUSE_DATA")),
           userspace_only |->
             PyBool(BoolParam(env, extp, "userspace_only",
                              "EXTP_USERSPACE_ONLY")) ],
         PopTruthy(extp, {"reuse_data", "userspace_only", "cephx_id",
                          "cephx_keyring", "cephx_keyfile"}))

\* read_env(): PyNone without VOL_CNAME, else the env dictionary.
read_env(env) ==
  IF "VOL_CNAME" \notin DOMAIN env THEN PyNone
  ELSE PyDict(EnvDict(env, ExtpParams(env)))

(* ----------------------------- handlers ------------------------------- *)

\* What a handler leaves behind: the context, the exception that left it
\* (or ""), its return value, and what it wrote to stdout.
Done(ctx, rc, out) == [ctx |-> ctx, exc |-> "", rc |-> rc, stdout |-> out]

Abort(ctx, exc, out) == [ctx |-> ctx, exc |-> exc, rc |-> 0, stdout |-> out]

\* `RBD.<call>(...); return 0`: the call's exception, if any, leaves the
\* handler.
ReturnZero(r) ==
  IF r.exc # "" THEN Abort(r.ctx, r.exc, <<>>) ELSE Done(r.ctx, 0, <<>>)

\* create without the `if origin:` branch.
createUnchecked(ctx, env) ==
  IF Truthy(Get(env, "reuse_data")) THEN Done(ctx, 0, <<>>)
  ELSE ReturnZero(
         RBD_create(ctx, Get(env, "name"), Get(env, "size"),
                    Get(env, "rbd_pool"),
                    [ image_format   |-> Get(env, "image_format"),
                      image_features |-> Get(env, "image_features"),
                      stripe_unit    |-> Get(env, "stripe_unit"),
                      stripe_count   |-> Get(env, "stripe_count") ],
                    Get(env, "cephx")))

create(ctx, env) ==
  IF Truthy(Get(env, "reuse_data")) THEN Done(ctx, 0, <<>>)
  ELSE IF Truthy(Get(env, "origin")) THEN Done(ctx, 1, <<>>)
  ELSE ReturnZero(
         RBD_create(ctx, Get(env, "name"), Get(env, "size"),
                    Get(env, "rbd_pool"),
                    [ image_format   |-> Get(env, "image_format"),
                      image_features |-> Get(env, "image_features"),
                      stripe_unit    |-> Get(env, "stripe_unit"),
                      stripe_count   |-> Get(env, "stripe_count") ],
                    Get(env, "cephx")))

snapshot(ctx, env) == Done(ctx, 1, <<>>)

\* format_qemu_uri(name, pool=pool, cephx=cephx): conf_file stays None.
\* The result is [exc, val]: cephx['id'] is looked up unguarded.
format_qemu_uri(name, pool, cephx) ==
  IF cephx.t # "dict" THEN [exc |-> "TypeError", val |-> ""]
  ELSE IF "id" \notin DOMAIN cephx.v THEN [exc |-> "KeyError", val |-> ""]
  ELSE IF Truthy(cephx.v["id"])
  THEN [exc |-> "",
        val |-> "kvm:rbd:" \o format_name(name, pool)
                \o ":id=" \o ToStr(cephx.v["id"])]
  ELSE [exc |-> "", val |-> "kvm:rbd:" \o format_name(name, pool)]

\* The two writes to stdout that end attach; u is format_qemu_uri's result.
WriteArtifact(ctx, device, u) ==
  IF u.exc # "" THEN Abort(ctx, u.exc, <<ToStr(device)>>)
  ELSE Done(ctx, 0, <<ToStr(device), "\n" \o u.val>>)

\* The end of attach, from sys.stdout.write("%s" % device) on.
AttachWrite(ctx, env, device) ==
  WriteArtifact(ctx, device,
                format_qemu_uri(Get(env, "name"), Get(env, "rbd_pool"),
                                Get(env, "cephx")))

\* attach after RBD.map returned m.
AttachMapped(env, m) ==
  IF m.exc # "" THEN Abort(m.ctx, m.exc, <<>>)
  ELSE AttachWrite(m.ctx, env, PyStr(m.val))

\* attach after RBD.get_device returned g.
AttachDevice(env, g) ==
  IF g.exc # "" THEN Abort(g.ctx, g.exc, <<>>)
  ELSE IF g.val.t = "None"
  THEN AttachMapped(env, RBD_map(g.ctx, Get(env, "name"),
                                 Get(env, "rbd_pool"), Get(env, "cephx")))
  ELSE AttachWrite(g.ctx, env, g.val)

\* attach without the `if userspace_only:` branch.
attachKernelOnly(ctx, env) ==
  AttachDevice(env, RBD_get_device(ctx, Get(env, "name"), PyNone, PyNone))

attach(ctx, env) ==
  IF Truthy(Get(env, "userspace_only")) THEN AttachWrite(ctx, env, PyStr(""))
  ELSE AttachDevice(env, RBD_get_device(ctx, Get(env, "name"), PyNone, PyNone))

\* detach after RBD.get_device returned g.
DetachDevice(env, g) ==
  IF g.exc # "" THEN Abort(g.ctx, g.exc, <<>>)
  ELSE IF Truthy(g.val)
  THEN ReturnZero(RBD_unmap(g.ctx, g.val, Get(env, "cephx")))
  ELSE Done(g.ctx, 0, <<>>)

detach(ctx, env) ==
  IF ~Truthy(Get(env, "userspace_only"))
  THEN DetachDevice(env, RBD_get_device(ctx, Get(env, "name"),
                                        Get(env, "rbd_pool"), PyNone))
  ELSE Done(ctx, 0, <<>>)

grow(ctx, env) ==
  ReturnZero(RBD_resize(ctx, Get(env, "name"), Get(env, "size"),
                        Get(env, "rbd_pool"), Get(env, "cephx")))

remove(ctx, env) ==
  ReturnZero(RBD_remove(ctx, Get(env, "name"), Get(env, "rbd_pool"),
                        Get(env, "cephx")))

verify(ctx, env) == Done(ctx, 0, <<>>)

setinfo(ctx, env) == Done(ctx, 0, <<>>)

(* ------------------------------- main --------------------------------- *)

actions ==
  {"create", "snapshot", "attach", "detach", "grow", "remove", "verify",
   "setinfo"}

\* actions[action_name](env)
Dispatch(action_name, ctx, env) ==
  CASE action_name = "create"   -> create(ctx, env)
    [] action_name = "snapshot" -> snapshot(ctx, env)
    [] action_name = "attach"   -> attach(ctx, env)
    [] action_name = "detach"   -> detach(ctx, env)
    [] action_name = "grow"     -> grow(ctx, env)
    [] action_name = "remove"   -> remove(ctx, env)
    [] action_name = "verify"   -> verify(ctx, env)
    [] action_name = "setinfo"  -> setinfo(ctx, env)

\* What a run leaves: exit status, the exception main caught (or ""),
\* stdout, the rbd commands issued with their exit codes, the table.
Exit(action_name, e, rc, exc, out, ctx) ==
  [ action |-> action_name, env |-> e, rc |-> rc, exc |-> exc,
    stdout |-> out, cmds |-> ctx.cmds, rcs |-> ctx.rcs, maps |-> ctx.maps ]

\* Try with the handler's exception logged and its status left at 0.
TrySwallow(action_name, e, h) ==
  Exit(action_name, e, h.rc, h.exc, h.stdout, h.ctx)

\* The try block of main: every exception of the handler becomes status 1.
Try(action_name, e, h) ==
  IF h.exc # "" THEN Exit(action_name, e, 1, h.exc, h.stdout, h.ctx)
  ELSE Exit(action_name, e, h.rc, "", h.stdout, h.ctx)

\* main() with env = read_env() already taken.
MainWith(action_name, e, ctx) ==
  IF e.t = "None" THEN Exit(action_name, e, 1, "", <<>>, ctx)
  ELSE IF action_name \notin actions
  THEN Exit(action_name, e, 1, "", <<>>, ctx)
  ELSE Try(action_name, e, Dispatch(action_name, ctx, e.v))

\* One run of the script, started as action_name with environment env, on
\* backend table maps with backend behaviour be.
main(action_name, env, maps, be) ==
  MainWith(action_name, read_env(env),
           [maps |-> maps, cmds |-> <<>>, rcs |-> <<>>, be |-> be])

(* --------------------------- state machine ---------------------------- *)

\* environ  : the process environment the orchestrator runs the script with
\* mappings : the backend's table, device slot -> mapped image or Free
\* last     : the latest run of the script
\* prev     : the run before it, when that was a run of the same action
NoRun ==
  [ action |-> "", env |-> PyNone, rc |-> 0, exc |-> "", stdout |-> <<>>,
    cmds |-> <<>>, rcs |-> <<>>, before |-> <<>> ]

\* An environment: the variables of record f that are not Absent.
Absent == "<absent>"

Present(f) == [ k \in { x \in DOMAIN f : f[x] # Absent } |-> f[k] ]

\* Environments of the volume vol1: with or without a pool, an auth id and
\* the userspace toggle.
MapEnvirons ==
  { Present(f) : f \in
      [ VOL_CNAME           : {Absent, "vol1"},
        VOL_SIZE            : {"10"},
        EXTP_RBD_POOL       : {Absent, "p"},
        EXTP_CEPHX_ID       : {Absent, "admin"},
        EXTP_USERSPACE_ONLY : {Absent, "On", "no"} ] }

\* Environments with every subset of the credentials and of the create
\* options, the reuse toggle and an origin.
BuilderEnvirons ==
  { Present(f) : f \in
      [ VOL_CNAME           : {"vol1"},
        VOL_SIZE            : {Absent, "10"},
        EXTP_RBD_POOL       : {Absent, "p"},
        EXTP_CEPHX_ID       : {Absent, "admin"},
        EXTP_CEPHX_KEYRING  : {Absent, "/etc/ceph/kr"},
        EXTP_CEPHX_KEYFILE  : {Absent, "/etc/ceph/kf"},
        EXTP_IMAGE_FORMAT   : {Absent, "2"},
        EXTP_IMAGE_FEATURES : {Absent, "3"},
        EXTP_STRIPE_UNIT    : {Absent, "65536"},
        EXTP_STRIPE_COUNT   : {Absent, "4"},
        EXTP_REUSE_DATA     : {Absent, "YES", "no"},
        EXTP_ORIGIN         : {Absent, "", "vol2"} ] }

\* Environments with EXTP_ variables that are none of the documented ones,
\* and with empty values.
PassEnvirons ==
  { Present(f) : f \in
      [ VOL_CNAME           : {Absent, "vol1"},
        VOL_SIZE            : {"10"},
        EXTP_NAME           : {Absent, "vol2"},
        EXTP_SIZE           : {Absent, "20"},
        EXTP_CEPHX          : {Absent, "x"},
        EXTP_CEPHX_ID       : {Absent, "", "admin"},
        EXTP_REUSE_DATA     : {Absent, "", "0", "set"},
        EXTP_USERSPACE_ONLY : {Absent, "", "1"} ] }

AllFree == [ i \in DevIds |-> Free ]

Init ==
  /\ environ \in MapEnvirons
  /\ mappings \in Tables
  /\ last = NoRun
  /\ prev = NoRun

InitBuilder ==
  /\ environ \in BuilderEnvirons \cup PassEnvirons
  /\ mappings = AllFree
  /\ last = NoRun
  /\ prev = NoRun

\* What the state keeps of run r: r and the table it started on.
Record(r) ==
  [ action |-> r.action, env |-> r.env, rc |-> r.rc, exc |-> r.exc,
    stdout |-> r.stdout, cmds |-> r.cmds, rcs |-> r.rcs,
    before |-> mappings ]

\* The run before a run of action_name, when it ran the same action.
Before(action_name) == IF last.action = action_name THEN last ELSE NoRun

\* The backend's possible behaviours in a run that can issue verbs.
Behaviours(verbs, ids) == [ fail : {""} \cup verbs, newId : ids ]

\* Each action is one run of the script under one name, main() to exit,
\* while the backend behaves as be.
Create ==
  \E be \in Behaviours({"create"}, {0}) :
    LET r == main("create", environ, mappings, be)
    IN  /\ last' = Record(r)
        /\ mappings' = r.maps
        /\ prev' = Before("create")
        /\ UNCHANGED environ

Snapshot ==
  \E be \in Behaviours({}, {0}) :
    LET r == main("snapshot", environ, mappings, be)
    IN  /\ last' = Record(r)
        /\ mappings' = r.maps
        /\ prev' = Before("snapshot")
        /\ UNCHANGED environ

Attach ==
  \E be \in Behaviours({"showmapped", "map"}, DevIds) :
    LET r == main("attach", environ, mappings, be)
    IN  /\ last' = Record(r)
        /\ mappings' = r.maps
        /\ prev' = Before("attach")
        /\ UNCHANGED environ

Detach ==
  \E be \in Behaviours({"showmapped", "unmap"}, {0}) :
    LET r == main("detach", environ, mappings, be)
    IN  /\ last' = Record(r)
        /\ mappings' = r.maps
        /\ prev' = Before("detach")
        /\ UNCHANGED environ

Grow ==
  \E be \in Behaviours({"resize"}, {0}) :
    LET r == main("grow", environ, mappings, be)
    IN  /\ last' = Record(r)
        /\ mappings' = r.maps
        /\ prev' = Before("grow")
        /\ UNCHANGED environ

Remove ==
  \E be \in Behaviours({"rm"}, {0}) :
    LET r == main("remove", environ, mappings, be)
    IN  /\ last' = Record(r)
        /\ mappings' = r.maps
        /\ prev' = Before("remove")
        /\ UNCHANGED environ

Verify ==
  \E be \in Behaviours({}, {0}) :
    LET r == main("verify", environ, mappings, be)
    IN  /\ last' = Record(r)
        /\ mappings' = r.maps
        /\ prev' = Before("verify")
        /\ UNCHANGED environ

Setinfo ==
  \E be \in Behaviours({}, {0}) :
    LET r == main("setinfo", environ, mappings, be)
    IN  /\ last' = Record(r)
        /\ mappings' = r.maps
        /\ prev' = Before("setinfo")
        /\ UNCHANGED environ

\* A name that is none of the actions.
Unsupported ==
  \E be \in Behaviours({}, {0}) :
    LET r == main("frobnicate", environ, mappings, be)
    IN  /\ last' = Record(r)
        /\ mappings' = r.maps
        /\ prev' = Before("frobnicate")
        /\ UNCHANGED environ

Next ==
  \/ Create
  \/ Snapshot
  \/ Attach
  \/ Detach
  \/ Grow
  \/ Remove
  \/ Verify
  \/ Setinfo
  \/ Unsupported

NextBuilder ==
  \/ Create
  \/ Grow
  \/ Remove

Spec == Init /\ [][Next]_vars

SpecBuilder == InitBuilder /\ [][NextBuilder]_vars

(* ------------------------- reading a run ------------------------------ *)

\* The run ran action a with an environment read_env accepted.
Ran(run, a) == run.action = a /\ run.env.t = "dict"

\* The configuration (read_env's dictionary) of such a run.
Conf(run) == run.env.v

\* The rbd verb of a recorded command line.
Verb(cmd) == StripAuth(Tail(cmd))[1]

\* How many commands with that verb the run issued.
Count(run, verb) ==
  Cardinality({ i \in 1 .. Len(run.cmds) : Verb(run.cmds[i]) = verb })

\* Some rbd command of the run returned a non-zero exit code.
BackendFailed(run) == \E i \in 1 .. Len(run.rcs) : run.rcs[i] # 0

UserspaceOnly(run) == Truthy(Get(Conf(run), "userspace_only"))

\* <flag, value> when the string field k of dictionary d is set.
Flag(d, k, flag) == IF k \in DOMAIN d THEN <<flag, d[k].v>> ELSE <<>>

\* pool/name when the pool is set, else name.
QualifiedName(conf) ==
  IF "rbd_pool" \in DOMAIN conf
  THEN conf["rbd_pool"].v \o "/" \o conf["name"].v
  ELSE conf["name"].v

\* The auth options for exactly the credentials that are set.
AuthFlags(conf) ==
  IF conf["cephx"].t # "dict" THEN <<>>
  ELSE Flag(conf["cephx"].v, "id", "--id")
       \o Flag(conf["cephx"].v, "keyring", "--keyring")
       \o Flag(conf["cephx"].v, "keyfile", "--keyfile")

\* The image the configuration names, as the backend lists it.
Requested(conf) ==
  [ pool |-> IF "rbd_pool" \in DOMAIN conf THEN conf["rbd_pool"].v
             ELSE DefaultPool,
    name |-> conf["name"].v ]

(* ------------------------------ claims -------------------------------- *)

\* C1: two attach runs in sequence for the same volume, not userspace-only
\* and with no failing backend command, write the same device path and
\* issue at most one `map` between them.
C1_AttachTwice ==
  ( /\ Ran(prev, "attach") /\ Ran(last, "attach")
    /\ ~UserspaceOnly(last)
    /\ ~BackendFailed(prev) /\ ~BackendFailed(last) )
  => /\ Len(prev.stdout) >= 1 /\ Len(last.stdout) >= 1
     /\ last.stdout[1] = prev.stdout[1]
     /\ Count(prev, "map") + Count(last, "map") <= 1

\* The first attach mapped the volume, the second found and reused it.
C1_Witness ==
  /\ Ran(prev, "attach") /\ Ran(last, "attach")
  /\ ~UserspaceOnly(last)
  /\ ~BackendFailed(prev) /\ ~BackendFailed(last)
  /\ Count(prev, "map") = 1 /\ Count(last, "map") = 0
  /\ last.stdout[1] = prev.stdout[1] /\ last.stdout[1] # ""

\* C2 (as claimed): two detach runs in sequence, not userspace-only, issue
\* at most one `unmap` between them and the second returns 0; a detach of a
\* volume no mapping is named after issues no `unmap` and returns 0.  Stated
\* for runs without a failing backend command, on tables that hold every
\* image at most once.
C2_DetachTwice ==
  /\ ( /\ Ran(prev, "detach") /\ Ran(last, "detach")
       /\ ~UserspaceOnly(last)
       /\ ~BackendFailed(prev) /\ ~BackendFailed(last)
       /\ \A i, j \in Mapped(prev.before) :
            prev.before[i] = prev.before[j] => i = j )
     => /\ Count(prev, "unmap") + Count(last, "unmap") <= 1
        /\ Count(last, "unmap") = 0
        /\ last.rc = 0
  /\ ( /\ Ran(last, "detach")
       /\ ~UserspaceOnly(last)
       /\ ~BackendFailed(last)
       /\ \A i \in Mapped(last.before) :
            last.before[i].name # Conf(last)["name"].v )
     => Count(last, "unmap") = 0 /\ last.rc = 0

\* C3 (as claimed): create with an origin returns 1 and issues no backend
\* command, whatever the other fields are.
C3_OriginAlwaysFails ==
  (Ran(last, "create") /\ Truthy(Get(Conf(last), "origin")))
  => last.rc = 1 /\ last.cmds = <<>>

\* C3 (amended): create with a non-empty origin issues no backend command;
\* it returns 1 unless reuse_data is true, and then it returns 0.
C3_OriginFailsUnlessReuse ==
  (Ran(last, "create") /\ Truthy(Get(Conf(last), "origin")))
  => /\ last.cmds = <<>>
     /\ last.rc = IF Truthy(Get(Conf(last), "reuse_data")) THEN 0 ELSE 1

\* A create with an origin, credentials, a pool and a create option set,
\* refused.
C3_Witness ==
  /\ Ran(last, "create")
  /\ Truthy(Get(Conf(last), "origin"))
  /\ ~Truthy(Get(Conf(last), "reuse_data"))
  /\ "id" \in DOMAIN Conf(last)["cephx"].v
  /\ "rbd_pool" \in DOMAIN Conf(last)
  /\ "image_format" \in DOMAIN Conf(last)
  /\ last.rc = 1 /\ last.cmds = <<>>

\* C4 (as claimed): an attach with no failing backend command returns 0 and
\* writes the device, then on a new line kvm:rbd:<qualifiedName>, followed
\* by :id=<id> only when an auth id is set.
C4_AttachArtifact ==
  (Ran(last, "attach") /\ ~BackendFailed(last)
   /\ Conf(last)["cephx"].t = "dict")
  => /\ last.rc = 0
     /\ Len(last.stdout) = 2
     /\ last.stdout[2] =
          "\n" \o "kvm:rbd:" \o QualifiedName(Conf(last))
          \o (IF "id" \in DOMAIN Conf(last)["cephx"].v
              THEN ":id=" \o Conf(last)["cephx"].v["id"].v ELSE "")

\* C5 (as claimed): every backend command of every run carries the auth
\* options of exactly the credentials that are set.
C5_AuthEverywhere ==
  (last.action # "" /\ last.env.t = "dict")
  => \A i \in 1 .. Len(last.cmds) :
       last.cmds[i] = <<RBD_CMD>> \o AuthFlags(Conf(last))
                      \o StripAuth(Tail(last.cmds[i]))

\* C6: with userspace_only true, attach and detach issue no backend command
\* at all, attach writes the empty string as its device and detach
\* returns 0, on every backend table.
C6_UserspaceOnly ==
  /\ (Ran(last, "attach") /\ UserspaceOnly(last))
     => /\ last.cmds = <<>>
        /\ Len(last.stdout) >= 1 /\ last.stdout[1] = ""
        /\ mappings = last.before
  /\ (Ran(last, "detach") /\ UserspaceOnly(last))
     => /\ last.cmds = <<>>
        /\ last.rc = 0
        /\ mappings = last.before

\* A userspace-only attach of a volume that a kernel device is mapped for.
C6_Witness ==
  /\ Ran(last, "attach") /\ UserspaceOnly(last)
  /\ environ["EXTP_USERSPACE_ONLY"] = "On"
  /\ \E i \in Mapped(last.before) : last.before[i] = Requested(Conf(last))
  /\ last.stdout[1] = "" /\ last.cmds = <<>>

\* C7: in every action, a backend command that returns non-zero is the last
\* command of the run (not retried, nothing issued after it) and the run
\* exits with status 1.
C7_FailurePropagates ==
  \A i \in 1 .. Len(last.rcs) :
    last.rcs[i] # 0 => i = Len(last.cmds) /\ last.rc = 1

\* An attach whose listing succeeded and whose `map` failed.
C7_Witness ==
  /\ Ran(last, "attach")
  /\ last.rcs = <<0, 1>>
  /\ Verb(last.cmds[2]) = "map"
  /\ last.rc = 1

\* C8: the one command line create issues is rbd, the auth options of the
\* set credentials in the order --id, --keyring, --keyfile, then
\* create <qualifiedName> --size <size>, then --image-format,
\* --image-features, --stripe-unit, --stripe-count, each with its value and
\* only when set, in that order.
C8_CreateArgv ==
  (Ran(last, "create") /\ last.cmds # <<>>)
  => /\ Len(last.cmds) = 1
     /\ last.cmds[1] =
          <<RBD_CMD>> \o AuthFlags(Conf(last))
          \o <<"create", QualifiedName(Conf(last)), "--size",
               IF Conf(last)["size"].t = "str" THEN Conf(last)["size"].v
               ELSE "None">>
          \o Flag(Conf(last), "image_format", "--image-format")
          \o Flag(Conf(last), "image_features", "--image-features")
          \o Flag(Conf(last), "stripe_unit", "--stripe-unit")
          \o Flag(Conf(last), "stripe_count", "--stripe-count")

\* A create with every credential and every option set.
C8_Witness ==
  /\ Ran(last, "create")
  /\ last.cmds =
       << <<"rbd", "--id", "admin", "--keyring", "/etc/ceph/kr",
            "--keyfile", "/etc/ceph/kf", "create", "p/vol1", "--size", "10",
            "--image-format", "2", "--image-features", "3",
            "--stripe-unit", "65536", "--stripe-count", "4">> >>

\* C9 (as claimed): the device attach reports is mapped to the requested
\* (pool, name), and every device detach unmaps was mapped to the requested
\* (pool, name), never to another image.  Stated for runs that name their
\* pool and meet no failing backend command.
C9_NoInterference ==
  /\ ( /\ Ran(last, "attach") /\ ~UserspaceOnly(last)
       /\ "rbd_pool" \in DOMAIN Conf(last)
       /\ ~BackendFailed(last) /\ Len(last.stdout) >= 1 )
     => \A i \in Mapped(mappings) :
          DevicePath(i) = last.stdout[1]
          => mappings[i] = Requested(Conf(last))
  /\ ( /\ Ran(last, "detach") /\ ~BackendFailed(last)
       /\ "rbd_pool" \in DOMAIN Conf(last) )
     => \A c \in 1 .. Len(last.cmds) : \A i \in Mapped(last.before) :
          ( /\ Verb(last.cmds[c]) = "unmap"
            /\ StripAuth(Tail(last.cmds[c]))[2] = DevicePath(i) )
          => last.before[i] = Requested(Conf(last))

\* C10 (as claimed): in the dictionary read_env returns, name is VOL_CNAME,
\* size is VOL_SIZE, cephx is a dictionary and the two toggles are true
\* exactly when their variables match the pattern, whatever other EXTP_
\* variables are set; so the image a backend command names is the one
\* VOL_CNAME names.
C10_CoreFields ==
  (last.action # "" /\ last.env.t = "dict")
  => /\ Conf(last)["name"] = PyStr(environ["VOL_CNAME"])
     /\ Conf(last)["size"] = Getenv(environ, "VOL_SIZE")
     /\ Conf(last)["cephx"].t = "dict"
     /\ Truthy(Conf(last)["reuse_data"])
          = ( /\ "EXTP_REUSE_DATA" \in DOMAIN environ
              /\ TRUE_PATTERN(environ["EXTP_REUSE_DATA"]) )
     /\ Truthy(Conf(last)["userspace_only"])
          = ( /\ "EXTP_USERSPACE_ONLY" \in DOMAIN environ
              /\ TRUE_PATTERN(environ["EXTP_USERSPACE_ONLY"]) )
     /\ \A i \in 1 .. Len(last.cmds) :
          Verb(last.cmds[i]) \in {"create", "resize", "rm"}
          => StripAuth(Tail(last.cmds[i]))[2]
               = (IF "rbd_pool" \in DOMAIN Conf(last)
                  THEN Conf(last)["rbd_pool"].v \o "/" ELSE "")
                 \o environ["VOL_CNAME"]

====
